---- MODULE Spec2Model ----
(***************************************************************************)
(* A model of safeget (src/source/safeget.py): one run of start_safeget(), *)
(* from verify_args() to the exit of the process.  Text (paths, urls,      *)
(* command line values, file contents) is a sequence of tokens; the files  *)
(* and web pages a run can read are the fixed catalogue FileTable; what    *)
(* the network, gpg and the platform answer is chosen by the environment   *)
(* in the action that asks.                                                *)
(***************************************************************************)
EXTENDS Integers, Sequences, FiniteSets, TLC

(* ------------------------------ bounds -------------------------------- *)

\* A request holds at most MaxItems sources, hash entries and options that
\* differ from their default, taken together.
MaxItems == 3

\* args.tries of every request (--tries).
MaxTries == 2

\* The characters of a text given to clean_gpg_data, besides its armor.
MaxText == 4

\* The calls of hash_data made one after another.
MaxCalls == 3

(* ------------------------- program constants -------------------------- *)

\* clean_gpg_data: "ok = os.path.getsize(path) > 100"
MIN_GPG_SIZE == 100

(* ------------------------------- text --------------------------------- *)

Range(s) == { s[i] : i \in 1..Len(s) }

\* Python's "needle in hay" for str: needle occurs as a contiguous run.
Contains(hay, needle) ==
    \E i \in 0..(Len(hay) - Len(needle)) :
        \A j \in 1..Len(needle) : hay[i + j] = needle[j]

StartsWith(s, prefix) ==
    /\ Len(prefix) <= Len(s)
    /\ \A j \in 1..Len(prefix) : s[j] = prefix[j]

\* str.lower(), token by token
LowerToken(t) ==
    CASE t = "SHA256" -> "sha256"
      [] t = "SHA512" -> "sha512"
      [] t = "A" -> "a"
      [] t = "B" -> "b"
      [] OTHER -> t

Lower(s) == [i \in 1..Len(s) |-> LowerToken(s[i])]

\* re.sub(' ', '', s)
RECURSIVE RemoveSpaces(_)
RemoveSpaces(s) ==
    IF s = <<>> THEN <<>>
    ELSE IF Head(s) = " " THEN RemoveSpaces(Tail(s))
    ELSE <<Head(s)>> \o RemoveSpaces(Tail(s))

\* str.replace(',', '')
RECURSIVE RemoveCommas(_)
RemoveCommas(s) ==
    IF s = <<>> THEN <<>>
    ELSE IF Head(s) = "," THEN RemoveCommas(Tail(s))
    ELSE <<Head(s)>> \o RemoveCommas(Tail(s))

\* the first index of token t in s, 0 when there is none
FirstIndex(s, t) ==
    IF t \in Range(s) THEN CHOOSE i \in 1..Len(s) : s[i] = t /\ \A j \in 1..(i - 1) : s[j] # t
    ELSE 0

\* str.partition(':'): the text before the first ':' and the text after it
PartitionHead(s) ==
    IF FirstIndex(s, ":") = 0 THEN s ELSE SubSeq(s, 1, FirstIndex(s, ":") - 1)

PartitionTail(s) ==
    IF FirstIndex(s, ":") = 0 THEN <<>> ELSE SubSeq(s, FirstIndex(s, ":") + 1, Len(s))

DigitValue(t) ==
    CASE t = "0" -> 0 [] t = "1" -> 1 [] t = "2" -> 2 [] t = "3" -> 3 [] t = "4" -> 4
      [] t = "5" -> 5 [] t = "6" -> 6 [] t = "7" -> 7 [] t = "8" -> 8 [] t = "9" -> 9
      [] OTHER -> -1

\* int(s): defined when every token is a digit and there is at least one
IsInt(s) == s # <<>> /\ \A i \in 1..Len(s) : DigitValue(s[i]) >= 0

RECURSIVE IntOf(_)
IntOf(s) == IF Len(s) = 0 THEN 0 ELSE 10 * IntOf(SubSeq(s, 1, Len(s) - 1)) + DigitValue(s[Len(s)])

is_url(s) == Contains(s, <<":", "/", "/">>)

\* urlparse(url).scheme
UrlScheme(url) == PartitionHead(url)

\* urlparse(url).netloc: what stands between '//' and the next '/'
UrlNetloc(url) ==
    LET rest == SubSeq(url, FirstIndex(url, ":") + 3, Len(url))
    IN  IF FirstIndex(rest, "/") = 0 THEN rest ELSE SubSeq(rest, 1, FirstIndex(rest, "/") - 1)

parse_host(url) ==
    IF ":" \in Range(UrlNetloc(url)) THEN PartitionHead(UrlNetloc(url)) ELSE UrlNetloc(url)

\* os.path.basename
RECURSIVE Basename(_)
Basename(p) == IF "/" \in Range(p) THEN Basename(Tail(p)) ELSE p

(* ------------------------ the files of a run -------------------------- *)

TargetPath == <<"app.bin">>

\* os.path.getsize of the target file: 1024 bytes
TargetBytes == IntOf(<<"1", "0", "2", "4">>)
TargetUrl == <<"https", ":", "/", "/", "h1", "/", "app.bin">>

\* the lowercase hex digest hashlib computes for the target file
TargetDigest(algo) ==
    CASE algo = <<"sha256">> -> <<"a", "1">>
      [] algo = <<"sha512">> -> <<"b", "2">>
      [] OTHER -> <<"c", "3">>

\* the digest of the file at path: another file has another digest
FileDigest(algo, path) ==
    IF path = TargetPath THEN TargetDigest(algo) ELSE TargetDigest(algo) \o <<"0">> \o path

\* An armored block inside a carrier text.  size: its byte length as
\* extracted; shrink: the bytes clean_gpg_data's replacements remove;
\* valid: gpg accepts it (as cleaned) under the key "K"; signs: for a detached
\* signature, the file it signs; text: for a signed message, the signed text.
Block(kind, size, shrink, valid, signs, text) ==
    [kind |-> kind, size |-> size, shrink |-> shrink, valid |-> valid,
     key |-> "K", signs |-> signs, text |-> text]

NoText == <<>>
SumsText == <<"a", "1", " ", "app.bin">>
OtherText == <<"f", "f", " ", "other.bin">>

\* decodable: the file reads as text; blocks: its armored blocks in order;
\* text: its text outside the blocks.
File(path, decodable, blocks, text) ==
    [path |-> path, decodable |-> decodable, blocks |-> blocks, text |-> text]

SigGood == <<"sig_good.asc">>
SigBad == <<"sig_bad.asc">>
SigUrl == <<"https", ":", "/", "/", "h2", "/", "sig">>
SigBinary == <<"sig.bin">>
KeyFile == <<"key.asc">>
MsgFile == <<"msg.asc">>
SumsGood == <<"sums_good.asc">>
SumsForged == <<"sums_forged.asc">>
SumsOther == <<"sums_other.asc">>
SumsPlain == <<"sums_plain.txt">>
SumsUrl == <<"https", ":", "/", "/", "h2", "/", "sums">>
HashesGood == <<"hashes_good.txt">>
HashesUrlGood == <<"https", ":", "/", "/", "h2", "/", "hashes">>
HashesUrlBad == <<"https", ":", "/", "/", "h3", "/", "hashes">>

FileTable ==
    { File(TargetPath, FALSE, <<>>, <<>>),
      File(TargetUrl, FALSE, <<>>, <<>>),
      File(KeyFile, TRUE, <<Block("key", 400, 0, TRUE, <<>>, NoText)>>, <<>>),
      File(SigGood, TRUE, <<Block("sig", 300, 0, TRUE, TargetPath, NoText)>>, <<>>),
      File(SigBad, TRUE, <<Block("sig", 300, 0, FALSE, TargetPath, NoText)>>, <<>>),
      \* a web page: a decorative example, then the signature with escaped newlines
      File(SigUrl, TRUE, <<Block("sig", 60, 0, FALSE, <<>>, NoText),
                           Block("sig", 320, 20, TRUE, TargetPath, NoText)>>, <<>>),
      File(SigBinary, FALSE, <<>>, <<>>),
      File(MsgFile, TRUE, <<Block("msg", 500, 0, TRUE, <<>>, OtherText)>>, <<>>),
      File(SumsGood, TRUE, <<Block("msg", 500, 0, TRUE, <<>>, SumsText)>>, <<>>),
      \* the digest inside an undersized block and inside a block gpg rejects
      File(SumsForged, TRUE, <<Block("msg", 90, 0, FALSE, <<>>, SumsText),
                               Block("msg", 500, 0, FALSE, <<>>, SumsText)>>, <<>>),
      File(SumsOther, TRUE, <<Block("msg", 500, 0, TRUE, <<>>, OtherText)>>, <<>>),
      \* the digest in plain text, with no signed message around it
      File(SumsPlain, TRUE, <<>>, SumsText),
      File(SumsUrl, TRUE, <<Block("msg", 520, 20, TRUE, <<>>, SumsText)>>, <<>>),
      File(HashesGood, TRUE, <<>>, <<"x", "a", "1", "y">>),
      File(HashesUrlGood, TRUE, <<>>, <<"x", "a", "1", "y">>),
      File(HashesUrlBad, TRUE, <<>>, <<"a", "x", "1", "A", "1">>) }

\* os.path.exists
PathExists(path) == \E f \in FileTable : f.path = path

FileAt(path) == CHOOSE f \in FileTable : f.path = path

(* --------------------- the state the functions pass ------------------- *)

\* target_host = None
None == <<"None">>

\* actual_hash before its first assignment in verify_explicit_hashes
Unbound == <<"<unbound>">>

\* A function of safeget.py is an operator from the machine state m (the
\* globals, what the run has done to the world, and the exception in flight)
\* to the machine state it leaves.  Where a function goes on with the result
\* of a call, the rest of the function is an operator of that result.
Fail(m, msg) == [m EXCEPT !.exc = "SafegetException", !.msg = msg]

Raise(m, exc) == [m EXCEPT !.exc = exc]

SAFE_PROTOCOLS == { <<"https">>, <<"sftp">>, <<"file">> }

\* A variant of SetTargetHost for C20: the host of every url is kept.
SetTargetHostAlways(m, host) == [m EXCEPT !.target_host = host]

\* "if target_host is None: ... target_host = host"
SetTargetHost(m, host) ==
    IF m.target_host = None THEN [m EXCEPT !.target_host = host] ELSE m

\* A variant of WarnSameHost for C19: the fail() the warning replaced.
FailSameHost(m, a, source, host) ==
    IF ~a.onehost /\ source # a.target /\ m.target_host = host
    THEN Fail(m, << <<"url is same host as target:">>, source >>)
    ELSE m

\* "if not args.onehost: if source != args.target and target_host == host: warn(...)"
WarnSameHost(m, a, source, host) ==
    IF ~a.onehost /\ source # a.target /\ m.target_host = host
    THEN [m EXCEPT !.warned = @ \cup {source}]
    ELSE m

VerifyUrlHost(m, a, source, host) ==
    IF m.target_host = None /\ source # a.target
    THEN Fail(m, << <<"safeget error: target source must be verified first">> >>)
    ELSE WarnSameHost(SetTargetHost(m, host), a, source, host)

verify_source(m, a, source) ==
    IF is_url(source)
    THEN IF UrlScheme(source) \notin SAFE_PROTOCOLS
         THEN Fail(m, << <<"url does not use a safe protocol">>, source >>)
         ELSE VerifyUrlHost(m, a, source, parse_host(source))
    ELSE IF m.target_host = None
         THEN [m EXCEPT !.target_host = a.target]
         ELSE m

\* the reason urlopen's error carries
NetReason == <<"[Errno 111]", "Connection refused">>

\* re.match('^\[Errno \d+\] (.*)$', str(reason)) and the rewrite to 'Error: ...'
ReasonText(reason) ==
    IF Head(reason) = "[Errno 111]" THEN <<"Error:">> \o Tail(reason) ELSE reason

\* A variant of get_details_for_failure for C14: details without the
\* suggestions.
get_details_without_suggestions(url, attempts, reason) ==
    << <<"Unable to safely get">>, url, ReasonText(reason) >>

get_details_for_failure(url, attempts, reason) ==
    << <<"Unable to safely get">>, url, ReasonText(reason),
       <<"Suggestions: Check connections or try again later.">> >>

\* download_url: the n-th attempt at a url fails when n <= fails (the
\* environment's choice), with urlopen's reason, and succeeds otherwise.
download_url(n, fails) ==
    IF n <= fails THEN [ok |-> FALSE, reason |-> NetReason]
    ELSE [ok |-> TRUE, reason |-> None]

\* A variant of DownloadLoop for C13: "while attempts <= max_tries and not ok".
RECURSIVE DownloadLoopOneMore(_, _, _, _, _, _)
DownloadLoopOneMore(attempts, ok, reason, max_tries, fails, answers) ==
    IF attempts <= max_tries /\ ~ok
    THEN DownloadLoopOneMore(attempts + 1, download_url(attempts + 1, fails).ok,
                             download_url(attempts + 1, fails).reason, max_tries, fails,
                             Append(answers, download_url(attempts + 1, fails).ok))
    ELSE [attempts |-> attempts, ok |-> ok, reason |-> reason, answers |-> answers]

\* download's loop: "while attempts < max_tries and not ok"; answers is what
\* download_url has returned so far, attempt by attempt
RECURSIVE DownloadLoop(_, _, _, _, _, _)
DownloadLoop(attempts, ok, reason, max_tries, fails, answers) ==
    IF attempts < max_tries /\ ~ok
    THEN DownloadLoop(attempts + 1, download_url(attempts + 1, fails).ok,
                      download_url(attempts + 1, fails).reason, max_tries, fails,
                      Append(answers, download_url(attempts + 1, fails).ok))
    ELSE [attempts |-> attempts, ok |-> ok, reason |-> reason, answers |-> answers]

\* the requests for a url that reached the network
Requested(m, url, r) ==
    [m EXCEPT !.net = @ \cup {[url |-> url, attempts |-> r.attempts, ok |-> r.ok,
                               answers |-> r.answers]}]

\* A variant of DownloadOutcome for C12: the loop run before verify_source(url)
\* is asked.
DownloadOutcomeFetchFirst(m1, url, r) ==
    IF ~r.ok
    THEN Fail(Requested(m1, url, r), get_details_for_failure(url, r.attempts, r.reason))
    ELSE Requested(m1, url, r)

\* download, after its verify_source(url) left m1 and its loop ended with r
DownloadOutcome(m1, url, r) ==
    IF m1.exc # "none" THEN m1
    ELSE IF ~r.ok
    THEN Fail(Requested(m1, url, r), get_details_for_failure(url, r.attempts, r.reason))
    ELSE Requested(m1, url, r)

\* args.overwrite_ok is True unless --overwrite_ok is given, so ok_to_write
\* is not asked.
download(m, a, url, fails) ==
    DownloadOutcome(verify_source(m, a, url), url, DownloadLoop(0, FALSE, None, a.tries, fails, <<>>))

\* "verify_source(url); path = get_temp_filename(); download(url, path)", v
\* what verify_source left.  The page is read under its url's entry of FileTable.
DownloadVerified(v, a, url, fails) ==
    IF v.exc # "none" THEN v ELSE download(v, a, url, fails)

hash_algorithms == { <<"sha256">>, <<"sha512">>, <<"md5">> }

\* A variant of CacheKey for C22: the path alone.
CacheKeyPathOnly(algo, localpath) == localpath

\* "source = f'{algo}:{localpath}'"
CacheKey(algo, localpath) == algo \o <<":">> \o localpath

\* "if source not in localpath_hash_cache: ... localpath_hash_cache[source] = ..."
CacheFill(m, algo, localpath) ==
    IF CacheKey(algo, localpath) \in DOMAIN m.cache THEN m
    ELSE [m EXCEPT !.reads = @ + 1,
                   !.cache = [k \in DOMAIN m.cache \cup {CacheKey(algo, localpath)} |->
                                 IF k = CacheKey(algo, localpath)
                                 THEN FileDigest(algo, localpath)
                                 ELSE m.cache[k]]]

CacheRead(m, source) == [m |-> m, value |-> m.cache[source]]

\* hash_data: [m, value]
hash_data(m, algo, localpath) ==
    CacheRead(CacheFill(m, algo, localpath), CacheKey(algo, localpath))

\* search_for_hash after its hash_data returned h; found_log holds its
\* "verfied ... hash from url"
SearchOutcome(h, signed_hash_file, algo, url_content) ==
    IF Contains(url_content, h.value)
    THEN [m |-> [h.m EXCEPT !.found_log = @ \cup {[file |-> signed_hash_file, algo |-> algo]}],
          ok |-> TRUE]
    ELSE [m |-> h.m, ok |-> FALSE]

\* search_for_hash: [m, ok]
search_for_hash(m, localpath, signed_hash_file, algo, url_content) ==
    SearchOutcome(hash_data(m, algo, localpath), signed_hash_file, algo, url_content)

compare_hashes(algo, expected_hash, actual_hash) == expected_hash = actual_hash

\* parse_hash after "algo, __, hash_or_url = text.partition(':'); algo = algo.lower()"
ParseHashParts(algo, hash_or_url) ==
    IF algo = <<>> \/ hash_or_url = <<>> \/ StartsWith(hash_or_url, <<"/", "/">>)
    THEN [exc |-> "SafegetException", algo |-> algo, hash_or_url |-> hash_or_url]
    ELSE [exc |-> "none", algo |-> algo,
          hash_or_url |-> IF is_url(hash_or_url) THEN hash_or_url
                          ELSE RemoveSpaces(Lower(hash_or_url))]

\* parse_hash: [exc, algo, hash_or_url]
parse_hash(text) == ParseHashParts(Lower(PartitionHead(text)), PartitionTail(text))

ParseHashMessage(text) ==
    << <<"in hash expected ALGORITHM:..., got">>, text >>

(* ------------------------- armored artifacts -------------------------- *)

\* One match of an extraction pattern in the file at path, written to a
\* temporary file.  SIG_PATTERN also matches the signature that ends a
\* signed message.
PatternMatches(pattern, b) == b.kind = pattern \/ (pattern = "sig" /\ b.kind = "msg")

Artifact(path, pattern, n, b) ==
    [origin |-> path, index |-> n, kind |-> pattern, size |-> b.size, shrink |-> b.shrink,
     valid |-> b.valid, key |-> b.key, signs |-> b.signs,
     text |-> IF pattern = b.kind THEN b.text ELSE NoText]

\* the matches among blocks n, n+1, ... of the file, in order
RECURSIVE MatchesIn(_, _, _, _)
MatchesIn(pattern, path, blocks, n) ==
    IF n > Len(blocks) THEN <<>>
    ELSE (IF PatternMatches(pattern, blocks[n])
          THEN << Artifact(path, pattern, n, blocks[n]) >> ELSE <<>>)
         \o MatchesIn(pattern, path, blocks, n + 1)

\* extract_patterns, for a file that reads as text
extract_patterns(pattern, path) == MatchesIn(pattern, path, FileAt(path).blocks, 1)

\* the temporary file an artifact is, and the file a hash list is saved in
TempFile(origin, n) == [origin |-> origin, index |-> n]

\* save_patterns' "if is_url(source): ... else: ... fail('file not found')"
FetchSource(m, a, source, fails) ==
    IF is_url(source) THEN DownloadVerified(verify_source(m, a, source), a, source, fails[source])
    ELSE IF ~PathExists(source) THEN Fail(m, << <<"file not found">>, source >>)
    ELSE m

RECURSIVE save_patterns(_, _, _, _, _, _)

\* save_patterns' "try: pattern_paths = extract_patterns(pattern, path) ...
\* except UnicodeDecodeError: pass", m1 what fetching the source left
SavePatternPaths(m1, a, pattern, sources, fails, paths) ==
    IF m1.exc # "none" THEN [m |-> m1, paths |-> paths]
    ELSE IF ~FileAt(Head(sources)).decodable
    THEN save_patterns(m1, a, pattern, Tail(sources), fails, paths)
    ELSE IF extract_patterns(pattern, Head(sources)) = <<>>
    THEN [m |-> Fail(m1, << <<"no patterns found">>, Head(sources) >>), paths |-> paths]
    ELSE save_patterns(m1, a, pattern, Tail(sources), fails,
                       paths \o extract_patterns(pattern, Head(sources)))

\* save_patterns: [m, paths]; fails[url] is the environment's choice for url
save_patterns(m, a, pattern, sources, fails, paths) ==
    IF sources = <<>> THEN [m |-> m, paths |-> paths]
    ELSE SavePatternPaths(FetchSource(m, a, Head(sources), fails), a, pattern, sources,
                          fails, paths)

\* clean_gpg_data: [ok, art], art the file as rewritten
clean_gpg_data(art) ==
    IF art.size > MIN_GPG_SIZE
    THEN [ok |-> TRUE, art |-> [art EXCEPT !.size = art.size - art.shrink, !.shrink = 0]]
    ELSE [ok |-> FALSE, art |-> art]

\* gpg --verify sigpath local_target
GpgVerifyDetached(art, local_target, keyring) ==
    art.kind = "sig" /\ art.valid /\ art.signs = local_target /\ art.key \in keyring

\* gpg --verify, the signed message on stdin
GpgVerifyMessage(art, keyring) ==
    art.kind = "msg" /\ art.valid /\ art.key \in keyring

GpgCall(op, art, ok) == [op |-> op, file |-> TempFile(art.origin, art.index), ok |-> ok]

Logged(m, call) == [m EXCEPT !.gpg_log = @ \cup {call}]

(* ------------------------------ the tiers ----------------------------- *)

\* "if clean_gpg_data(keypath): safeget_run(*[gpg_path, '--import', keypath])";
\* gpg --import accepts a valid key block
ImportKey(m, c) ==
    IF ~c.ok THEN m
    ELSE IF ~c.art.valid THEN Raise(m, "CalledProcessError")
    ELSE Logged([m EXCEPT !.keyring = @ \cup {c.art.key}], GpgCall("import", c.art, TRUE))

\* get_pubkeys' loop over pubkey_paths
RECURSIVE ImportKeys(_, _)
ImportKeys(m, paths) ==
    IF paths = <<>> \/ m.exc # "none" THEN m
    ELSE ImportKeys(ImportKey(m, clean_gpg_data(Head(paths))), Tail(paths))

ImportSaved(sp) == ImportKeys(sp.m, sp.paths)

get_pubkeys(m, a, fails) ==
    IF a.pubkey = <<>> THEN m
    ELSE ImportSaved(save_patterns(m, a, "key", a.pubkey, fails, <<>>))

\* "if clean_gpg_data(sigpath): try: safeget_run(gpg --verify sigpath
\* local_target) except Exception: debug(...) else: verbose(...)"
VerifySigPath(m, c, local_target) ==
    IF c.ok
    THEN Logged(m, GpgCall("verify_detached", c.art,
                           GpgVerifyDetached(c.art, local_target, m.keyring)))
    ELSE m

\* verify_signatures' loop over sig_paths
RECURSIVE VerifySigPaths(_, _, _)
VerifySigPaths(m, paths, local_target) ==
    IF paths = <<>> THEN m
    ELSE VerifySigPaths(VerifySigPath(m, clean_gpg_data(Head(paths)), local_target),
                        Tail(paths), local_target)

VerifySigSaved(sp, local_target) ==
    IF sp.m.exc # "none" THEN sp.m ELSE VerifySigPaths(sp.m, sp.paths, local_target)

verify_signatures(m, a, local_target, fails) ==
    IF a.sig = <<>> THEN m
    ELSE VerifySigSaved(save_patterns(m, a, "sig", a.sig, fails, <<>>), local_target)

\* A variant of VerifyMsgPath for C7: the append after the try statement
\* instead of in its else clause.
VerifyMsgPathAppendAlways(m, c, verified) ==
    IF ~c.ok THEN [m |-> m, verified |-> verified]
    ELSE [m |-> Logged(m, GpgCall("verify_message", c.art, GpgVerifyMessage(c.art, m.keyring))),
          verified |-> Append(verified, c.art)]

\* "if clean_gpg_data(signedmsg_path): ... safeget_run(gpg --verify) ...
\* else: verified_signedmsg_paths.append(signedmsg_path)": [m, verified]
VerifyMsgPath(m, c, verified) ==
    IF ~c.ok THEN [m |-> m, verified |-> verified]
    ELSE [m |-> Logged(m, GpgCall("verify_message", c.art, GpgVerifyMessage(c.art, m.keyring))),
          verified |-> IF GpgVerifyMessage(c.art, m.keyring) THEN Append(verified, c.art)
                       ELSE verified]

\* verify_signed_messages' loop: [m, verified], verified the cleaned files
\* gpg accepted
RECURSIVE VerifyMsgPaths(_, _)
VerifyMsgPaths(r, paths) ==
    IF paths = <<>> THEN r
    ELSE VerifyMsgPaths(VerifyMsgPath(r.m, clean_gpg_data(Head(paths)), r.verified),
                        Tail(paths))

VerifyMsgSaved(sp) ==
    IF sp.m.exc # "none" THEN [m |-> sp.m, verified |-> <<>>]
    ELSE VerifyMsgPaths([m |-> sp.m, verified |-> <<>>], sp.paths)

verify_signed_messages(m, a, source, fails) ==
    VerifyMsgSaved(save_patterns(m, a, "msg", <<source>>, fails, <<>>))

Matched(s) == [m |-> s.m, matched |-> s.ok]

\* check_signed_hash_file after its clean_gpg_data returned c
CheckCleaned(m, localpath, c, algo) ==
    IF c.ok
    THEN Matched(search_for_hash(m, localpath, TempFile(c.art.origin, c.art.index), algo,
                                 c.art.text))
    ELSE [m |-> m, matched |-> FALSE]

\* check_signed_hash_file: [m, matched]
check_signed_hash_file(m, localpath, signed_hash_file, algo) ==
    CheckCleaned(m, localpath, clean_gpg_data(signed_hash_file), algo)

\* A variant of SignedDataFiles for C8: the loop without "if not matched",
\* which keeps the last file's answer.
RECURSIVE SignedDataFilesKeepLast(_, _, _, _)
SignedDataFilesKeepLast(r, localpath, files, algo) ==
    IF files = <<>> THEN r
    ELSE SignedDataFilesKeepLast(check_signed_hash_file(r.m, localpath, Head(files), algo),
                                 localpath, Tail(files), algo)

\* "for signed_hash_file in signed_data_files: if not matched: matched = ..."
RECURSIVE SignedDataFiles(_, _, _, _)
SignedDataFiles(r, localpath, files, algo) ==
    IF files = <<>> THEN r
    ELSE IF r.matched THEN SignedDataFiles(r, localpath, Tail(files), algo)
    ELSE SignedDataFiles(check_signed_hash_file(r.m, localpath, Head(files), algo),
                         localpath, Tail(files), algo)

RECURSIVE SignedHashArgs(_, _, _, _, _)

\* one signed_hash_arg after verify_signed_messages(source) returned vm
SignedHashSource(vm, a, localpath, left, fails, matched, algo) ==
    IF vm.m.exc # "none" THEN [m |-> vm.m, matched |-> matched]
    ELSE SignedHashArgs(SignedDataFiles([m |-> vm.m, matched |-> matched], localpath,
                                        vm.verified, algo),
                        a, localpath, Tail(left), fails)

\* one signed_hash_arg after parse_hash returned ph
SignedHashArg(r, a, localpath, left, fails, ph) ==
    IF ph.exc # "none"
    THEN [m |-> Fail(r.m, ParseHashMessage(Head(left))), matched |-> r.matched]
    ELSE IF ph.algo \notin hash_algorithms
    THEN [m |-> Fail(r.m, << ph.algo, <<"not in available hash algorithms">> >>),
          matched |-> r.matched]
    ELSE SignedHashSource(verify_signed_messages(r.m, a, ph.hash_or_url, fails), a, localpath,
                          left, fails, r.matched, ph.algo)

\* "for signed_hash_arg in args.signedhash: ...": [m, matched]
SignedHashArgs(r, a, localpath, left, fails) ==
    IF left = <<>> \/ r.m.exc # "none" THEN r
    ELSE SignedHashArg(r, a, localpath, left, fails, parse_hash(Head(left)))

\* A variant of SignedHashVerdict for C3: the policy under which the tier's
\* failure is fatal only as the last sufficiency path configured.
SignedHashVerdictLastPath(r, a) ==
    IF r.m.exc # "none" THEN r.m
    ELSE IF ~r.matched /\ a.sig = <<>> /\ a.hash = <<>>
    THEN Fail(r.m, << <<"no matching signed hash found in">> >> \o a.signedhash)
    ELSE r.m

\* "if not matched: fail(f'no matching signed hash found in {args.signedhash}')"
SignedHashVerdict(r, a) ==
    IF r.m.exc # "none" THEN r.m
    ELSE IF ~r.matched
    THEN Fail(r.m, << <<"no matching signed hash found in">> >> \o a.signedhash)
    ELSE r.m

verify_signed_hashes(m, a, localpath, fails) ==
    IF a.signedhash = <<>> THEN m
    ELSE SignedHashVerdict(SignedHashArgs([m |-> m, matched |-> FALSE], a, localpath,
                                          a.signedhash, fails), a)

\* [m, matched, actual_hash] of an entry whose url was fetched, leaving d, and searched
HashUrlSearched(s, actual_hash) ==
    [m |-> s.m, matched |-> s.ok, actual_hash |-> actual_hash]

HashUrlFetched(d, localpath, algo, url, actual_hash) ==
    IF d.exc # "none" THEN [m |-> d, matched |-> FALSE, actual_hash |-> actual_hash]
    ELSE IF ~FileAt(url).decodable
    THEN [m |-> Raise(d, "UnicodeDecodeError"), matched |-> FALSE, actual_hash |-> actual_hash]
    ELSE HashUrlSearched(search_for_hash(d, localpath, TempFile(url, 0), algo,
                                         FileAt(url).text), actual_hash)

\* "actual_hash = hash_data(algo, localpath);
\*  matched = compare_hashes(algo, expected_hash, actual_hash)"
HashLiteral(h, algo, expected_hash) ==
    [m |-> h.m, matched |-> compare_hashes(algo, expected_hash, h.value),
     actual_hash |-> h.value]

\* One entry of "for hash_arg in args.hash": [m, matched, actual_hash].
\* actual_hash is assigned in the literal branch only.
ExplicitHashEntry(m, a, localpath, algo, hash_or_url, fails, actual_hash) ==
    IF is_url(hash_or_url)
    THEN HashUrlFetched(DownloadVerified(verify_source(m, a, hash_or_url), a, hash_or_url,
                                         fails[hash_or_url]),
                        localpath, algo, hash_or_url, actual_hash)
    ELSE HashLiteral(hash_data(m, algo, localpath), algo, hash_or_url)

HashMismatchMessage(localpath, algo, actual_hash) ==
    << localpath, <<"expected hash did not match actual hash">>, algo, actual_hash >>

RECURSIVE ExplicitHashArgs(_, _, _, _, _, _)

\* A variant of ExplicitHashMatched for C4: "if not matched" placed after the
\* loop, where it reads the last entry's matched only.
ExplicitHashMatchedAfterLoop(e, a, localpath, left, fails, algo) ==
    IF e.m.exc # "none" THEN e.m
    ELSE IF ~e.matched /\ Tail(left) = <<>>
    THEN IF e.actual_hash = Unbound THEN Raise(e.m, "UnboundLocalError")
         ELSE Fail(e.m, HashMismatchMessage(localpath, algo, e.actual_hash))
    ELSE ExplicitHashArgs(e.m, a, localpath, Tail(left), fails, e.actual_hash)

\* "if not matched: fail(f'{os.path.abspath(localpath)} expected hash did not
\* match actual hash {algo}:{actual_hash}')", e the entry's outcome
ExplicitHashMatched(e, a, localpath, left, fails, algo) ==
    IF e.m.exc # "none" THEN e.m
    ELSE IF ~e.matched
    THEN IF e.actual_hash = Unbound THEN Raise(e.m, "UnboundLocalError")
         ELSE Fail(e.m, HashMismatchMessage(localpath, algo, e.actual_hash))
    ELSE ExplicitHashArgs(e.m, a, localpath, Tail(left), fails, e.actual_hash)

\* one hash_arg after parse_hash returned ph
ExplicitHashArg(m, a, localpath, left, fails, actual_hash, ph) ==
    IF ph.exc # "none" THEN Fail(m, ParseHashMessage(Head(left)))
    ELSE IF ph.algo \notin hash_algorithms
    THEN Fail(m, << ph.algo, <<"not in available hash algorithms">> >>)
    ELSE ExplicitHashMatched(ExplicitHashEntry(m, a, localpath, ph.algo, ph.hash_or_url,
                                               fails, actual_hash),
                             a, localpath, left, fails, ph.algo)

\* "for hash_arg in args.hash: ..."
ExplicitHashArgs(m, a, localpath, left, fails, actual_hash) ==
    IF left = <<>> THEN m
    ELSE ExplicitHashArg(m, a, localpath, left, fails, actual_hash, parse_hash(Head(left)))

verify_explicit_hashes(m, a, localpath, fails) ==
    IF a.hash = <<>> THEN m
    ELSE ExplicitHashArgs(m, a, localpath, a.hash, fails, Unbound)

\* A variant of verify_size for C18: a size that differs is let through.
verify_size_unchecked(m, a, localpath) ==
    IF a.size = <<>> THEN m
    ELSE IF ~IsInt(RemoveCommas(a.size)) THEN Raise(m, "ValueError")
    ELSE m

\* os.path.getsize(localpath): the target is the one file the run sizes
verify_size(m, a, localpath) ==
    IF a.size = <<>> THEN m
    ELSE IF ~IsInt(RemoveCommas(a.size)) THEN Raise(m, "ValueError")
    ELSE IF TargetBytes = IntOf(RemoveCommas(a.size)) THEN m
    ELSE Fail(m, << <<"file size is not">>, RemoveCommas(a.size) >>)

\* A variant of verify_args for C10: without its first check, "size alone"
\* is the one that is left for a request with no signature and no hash.
verify_args_size_alone(m, a) ==
    IF a.size # <<>> /\ a.sig = <<>> /\ a.signedhash = <<>> /\ a.hash = <<>>
    THEN Fail(m, << <<"File size alone is not enough verification.">> >>)
    ELSE IF a.sig # <<>> /\ a.pubkey = <<>>
    THEN Fail(m, << <<"Detached signature found, but required PGP public key not found.">> >>)
    ELSE IF a.signedhash # <<>> /\ a.pubkey = <<>>
    THEN Fail(m, << <<"Signed hash found, but required PGP public key not found.">> >>)
    ELSE IF a.pubkey # <<>> /\ a.sig = <<>> /\ a.signedmsg = <<>> /\ a.signedhash = <<>>
    THEN Fail(m, << <<"PGP public key found, but you also need to include a file signature">> >>)
    ELSE verify_source(m, a, a.target)

verify_args(m, a) ==
    IF a.sig = <<>> /\ a.signedhash = <<>> /\ a.hash = <<>>
    THEN Fail(m, << <<"File signature, signed hash, or explicit hash required">> >>)
    ELSE IF a.size # <<>> /\ a.sig = <<>> /\ a.signedhash = <<>> /\ a.hash = <<>>
    THEN Fail(m, << <<"File size alone is not enough verification.">> >>)
    ELSE IF a.sig # <<>> /\ a.pubkey = <<>>
    THEN Fail(m, << <<"Detached signature found, but required PGP public key not found.">> >>)
    ELSE IF a.signedhash # <<>> /\ a.pubkey = <<>>
    THEN Fail(m, << <<"Signed hash found, but required PGP public key not found.">> >>)
    ELSE IF a.pubkey # <<>> /\ a.sig = <<>> /\ a.signedmsg = <<>> /\ a.signedhash = <<>>
    THEN Fail(m, << <<"PGP public key found, but you also need to include a file signature">> >>)
    ELSE verify_source(m, a, a.target)

(* --------------------------- self-attestation ------------------------- *)

ApiUrl == <<"https", ":", "/", "/", "github.com", "/", "safeapps", "/", "open", "/",
            "safeget", "/", "api", "/">>

\* What the attestation endpoint answers, as far as check_safeget_itself
\* reads it: qq: the 'quick-query' object is there; ok: its ok flag; message:
\* it has a 'message'; bytes, sha512, sha256: the reported value equals the
\* local file's.
Responses ==
    [qq : BOOLEAN, ok : BOOLEAN, message : BOOLEAN,
     bytes : BOOLEAN, sha512 : BOOLEAN, sha256 : BOOLEAN]

\* A variant of safeget_ok for C15: the size compared, the hashes not.
safeget_ok_size_only(result) ==
    IF result.bytes
    THEN [ok |-> TRUE, error_message |-> None]
    ELSE [ok |-> FALSE,
          error_message |-> <<"Your local copy does not match the original.",
                              "IMPORTANT: You should download the safeget installer again.">>]

\* safeget_ok: [ok, error_message]
safeget_ok(result) ==
    IF result.bytes
    THEN IF result.sha512 /\ result.sha256
         THEN [ok |-> TRUE, error_message |-> None]
         ELSE [ok |-> FALSE,
               error_message |-> <<"The hash does not match the original.",
                                   "IMPORTANT: You should download the safeget installer again.">>]
    ELSE [ok |-> FALSE,
          error_message |-> <<"Your local copy does not match the original.",
                              "IMPORTANT: You should download the safeget installer again.">>]

\* check_safeget_itself, once the response is parsed: [exc, ok, error_message]
check_safeget_itself(result) ==
    IF result.qq
    THEN IF result.ok
         THEN IF ~result.message
              THEN [exc |-> "KeyError", ok |-> FALSE, error_message |-> None]
              ELSE [exc |-> "none"] @@ safeget_ok(result)
         ELSE IF result.message
         THEN [exc |-> "none", ok |-> FALSE, error_message |-> <<"message">>]
         ELSE [exc |-> "none", ok |-> TRUE, error_message |-> None]
    ELSE [exc |-> "none", ok |-> FALSE, error_message |-> <<"Unable to verify safeget">>]

\* verify_safeget_itself after check_safeget_itself returned c
SafegetChecked(m1, c) ==
    IF c.exc # "none" THEN Raise(m1, c.exc)
    ELSE IF ~c.ok
    THEN Fail(m1, IF c.error_message # None THEN << c.error_message >>
                  ELSE << <<"Unable to verify safeget.">> >>)
    ELSE m1

\* What a request to the endpoint ends with: no connection, a page that is
\* no JSON, or a parsed response.
NoResponse ==
    [qq |-> FALSE, ok |-> FALSE, message |-> FALSE,
     bytes |-> FALSE, sha512 |-> FALSE, sha256 |-> FALSE]

Replies ==
    { [reply |-> "unreachable", result |-> NoResponse],
      [reply |-> "garbage", result |-> NoResponse] }
    \cup { [reply |-> "parsed", result |-> result] : result \in Responses }

\* the response gives a size or a digest that is not the program's own
ReportsMismatch(result) ==
    result.qq /\ result.message /\ ~(result.bytes /\ result.sha512 /\ result.sha256)

\* the request check_safeget_itself makes, with how the endpoint answered
\* and whether its answer differs from the program's own file
Asked(m, reply, result) ==
    [m EXCEPT !.net = @ \cup {[url |-> ApiUrl, attempts |-> 1, ok |-> reply # "unreachable",
                               answers |-> <<reply # "unreachable">>,
                               reply |-> reply, differs |-> ReportsMismatch(result)]}]

\* verify_safeget_itself; reply is "unreachable" (opener.open raises),
\* "garbage" (json.loads raises) or "parsed"
verify_safeget_itself(m, reply, result) ==
    IF reply = "unreachable" THEN Raise(Asked(m, reply, result), "URLError")
    ELSE IF reply = "garbage" THEN Raise(Asked(m, reply, result), "ValueError")
    ELSE SafegetChecked(Asked(m, reply, result), check_safeget_itself(result))

(* ------------------------------ dependencies -------------------------- *)

GpgWindowsUrl == <<"https", ":", "/", "/", "files.gpg4win.org", "/", "gpg4win-latest.exe">>

\* windows_install after download(url, program_path) left d:
\* "except Exception: fail('rerun this program as admin ...')", else the
\* installer runs
InstallerFetched(d, installer_ok) ==
    IF d.exc # "none" THEN Fail(d, << <<"rerun this program as admin to install">> >>)
    ELSE IF ~installer_ok THEN Raise(d, "CalledProcessError")
    ELSE d

\* windows_install after verify_source(url) left v
WindowsInstall(v, a, fails, installer_ok) ==
    IF v.exc # "none" THEN v
    ELSE InstallerFetched(download(v, a, GpgWindowsUrl, fails), installer_ok)

\* install_dependencies.  found: which('gpg') finds gpg.  When it does not:
\* on Linux and macOS installed() answers True whenever which() returns, and
\* nothing is installed; on Windows the installer is downloaded and run; on
\* any other platform install() fails.
install_dependencies(m, a, system, found, fails, installer_ok) ==
    IF found \/ system \in {"Linux", "Darwin"} THEN m
    ELSE IF system = "Windows"
    THEN WindowsInstall(verify_source(m, a, GpgWindowsUrl), a, fails, installer_ok)
    ELSE Fail(m, << <<"unable to install on">>, <<system>> >>)

(* -------------------------------- requests ---------------------------- *)

SigSources == { SigGood, SigBad, SigUrl, SigBinary }

Sha256Of(source) == <<"SHA256", ":">> \o source

SignedHashSources == { Sha256Of(SumsGood), Sha256Of(SumsForged), Sha256Of(SumsOther),
                       Sha256Of(SumsPlain), Sha256Of(SumsUrl) }

HashGood == <<"SHA256", ":", "A", " ", "1">>
HashBad == <<"sha256", ":", "f", "f">>
Hash512 == <<"sha512", ":", "b", "2">>

HashEntries == { HashGood, HashBad, Hash512, Sha256Of(HashesUrlGood),
                 Sha256Of(HashesUrlBad), Sha256Of(HashesGood) }

SizeGood == <<"1", ",", "0", "2", "4">>
SizeBad == <<"1", "0", "2", "5">>
SizeMalformed == <<"1", "k">>

\* What a request may set away from its default, one item each.  pubkey
\* follows the request (given exactly when a signature, signed message or
\* signed hash is) unless "pubkey" flips it.
Options == { "url", "size", "wrongsize", "nosize", "signedmsg", "pubkey", "debug", "run", "after",
             "onehost", "selfcheck" }

OptionSets(n) ==
    { o \in SUBSET Options :
        Cardinality(o) <= n /\ Cardinality(o \cap {"size", "wrongsize", "nosize"}) <= 1 }

Request(sig, signedhash, hash, o) ==
    [target |-> IF "url" \in o THEN TargetUrl ELSE TargetPath,
     size |-> IF "size" \in o THEN SizeGood ELSE IF "wrongsize" \in o THEN SizeBad
              ELSE IF "nosize" \in o THEN SizeMalformed ELSE <<>>,
     hash |-> hash,
     pubkey |-> IF (sig # <<>> \/ signedhash # <<>> \/ "signedmsg" \in o) # ("pubkey" \in o)
                THEN <<KeyFile>> ELSE <<>>,
     sig |-> sig,
     signedmsg |-> IF "signedmsg" \in o THEN <<MsgFile>> ELSE <<>>,
     signedhash |-> signedhash,
     after |-> IF "after" \in o THEN <<"install.sh">> ELSE <<>>,
     run |-> "run" \in o,
     tries |-> MaxTries,
     debug |-> "debug" \in o,
     onehost |-> "onehost" \in o,
     \* 'noselfcheck' is an attribute of args only in a custom safeget
     noselfcheck |-> IF "selfcheck" \in o THEN "False" ELSE "absent"]

\* the sequences of length n over S
Lists(S, n) == [1..n -> S]

\* the request is one of: i signature sources, j signed hash sources, k hash
\* entries and at most MaxItems - i - j - k options
IsRequest(a) ==
    \E i \in 0..MaxItems : \E j \in 0..(MaxItems - i) : \E k \in 0..(MaxItems - i - j) :
        \E sig \in Lists(SigSources, i), signedhash \in Lists(SignedHashSources, j),
           hash \in Lists(HashEntries, k), o \in OptionSets(MaxItems - i - j - k) :
            a = Request(sig, signedhash, hash, o)

Urls(sources) == { s \in Range(sources) : is_url(s) }

HashUrls(entries) == { PartitionTail(e) : e \in { x \in Range(entries) : is_url(x) } }

(* --------------------------------- state ------------------------------ *)

VARIABLES
    args,                  \* the parsed command line
    pc,                    \* the call of start_safeget that is next, or that raised
    status,                \* running | raised | exit0 | exit1 | exit2 | traceback
    exc,                   \* the exception in flight
    msg,                   \* its message, part by part
    local_target,          \* start_safeget's local_target
    target_host,           \* global target_host
    localpath_hash_cache,  \* global localpath_hash_cache
    hash_reads,            \* how often hash_data has read a file
    net,                   \* the urls requested, with the attempts made
    warned,                \* the sources warn() was called for
    keyring,               \* the keys gpg has imported
    gpg_log,               \* the calls of gpg and their results
    found_log,             \* the files search_for_hash found the digest in
    verified,              \* 'Verified <target>' was printed
    executed,              \* the commands run for --run and --after
    tmp_dir,               \* TMP_DIR exists
    call                   \* the locals of a function that is called on its own

vars == << args, pc, status, exc, msg, local_target, target_host, localpath_hash_cache,
           hash_reads, net, warned, keyring, gpg_log, found_log, verified, executed, tmp_dir,
           call >>

\* clean_gpg_data's text: what the file it is given holds
text == call.text

\* the calls of hash_data made one by one, with what each returned
hash_calls == call.hash_calls

\* check_safeget_itself's result: the response it parsed
result == call.result

\* the ok clean_gpg_data and check_safeget_itself return
ok == call.ok

\* the locals when a call starts
Locals(t, r) == [text |-> t, hash_calls |-> <<>>, result |-> r, ok |-> None]

\* no such call made
NoCalls == call = Locals(<<>>, None)

Init ==
    /\ IsRequest(args)
    /\ pc = "verify_args"
    /\ status = "running"
    /\ exc = "none"
    /\ msg = <<>>
    /\ local_target = <<>>
    /\ target_host = None
    /\ localpath_hash_cache = [k \in {} |-> <<>>]
    /\ hash_reads = 0
    /\ net = {}
    /\ warned = {}
    /\ keyring = {}
    /\ gpg_log = {}
    /\ found_log = {}
    /\ verified = FALSE
    /\ executed = {}
    /\ tmp_dir = TRUE
    /\ NoCalls

\* the machine state the functions start from
Machine ==
    [target_host |-> target_host, cache |-> localpath_hash_cache, reads |-> hash_reads,
     net |-> net, warned |-> warned, keyring |-> keyring, gpg_log |-> gpg_log,
     found_log |-> found_log, exc |-> "none", msg |-> <<>>]

\* A call of start_safeget returns, and next is the call after it, or raises.
Return(m, next) ==
    /\ target_host' = m.target_host
    /\ localpath_hash_cache' = m.cache
    /\ hash_reads' = m.reads
    /\ net' = m.net
    /\ warned' = m.warned
    /\ keyring' = m.keyring
    /\ gpg_log' = m.gpg_log
    /\ found_log' = m.found_log
    /\ exc' = m.exc
    /\ msg' = m.msg
    /\ pc' = IF m.exc = "none" THEN next ELSE pc
    /\ status' = IF m.exc = "none" THEN "running" ELSE "raised"

At(place) == pc = place /\ status = "running"

(* -------------------------------- actions ----------------------------- *)

VerifyArgs ==
    /\ At("verify_args")
    /\ Return(verify_args(Machine, args), "install_dependencies")
    /\ UNCHANGED << args, local_target, verified, executed, tmp_dir, call >>

InstallDependencies ==
    /\ At("install_dependencies")
    /\ \E system \in {"Linux", "Windows", "Plan9"}, found \in BOOLEAN,
          fails \in 0..args.tries, installer_ok \in BOOLEAN :
          Return(install_dependencies(Machine, args, system, found, fails, installer_ok),
                 "verify_safeget_itself")
    /\ UNCHANGED << args, local_target, verified, executed, tmp_dir, call >>

\* "if 'noselfcheck' in args and not args.noselfcheck: verify_safeget_itself()"
VerifySafegetItself ==
    /\ At("verify_safeget_itself")
    /\ IF args.noselfcheck = "False"
       THEN \E answer \in Replies :
               Return(verify_safeget_itself(Machine, answer.reply, answer.result), "download")
       ELSE Return(Machine, "download")
    /\ UNCHANGED << args, local_target, verified, executed, tmp_dir, call >>

\* "if is_url(args.target): ... download(url, local_target) else: ..."
Download ==
    /\ At("download")
    /\ IF is_url(args.target)
       THEN /\ local_target' = Basename(args.target)
            /\ \E fails \in 0..args.tries :
                  Return(download(Machine, args, args.target, fails), "verify_file")
       ELSE /\ local_target' = args.target
            /\ Return(IF PathExists(args.target) THEN Machine
                      ELSE Fail(Machine, << <<"file does not exist">>, args.target >>),
                      "verify_file")
    /\ UNCHANGED << args, verified, executed, tmp_dir, call >>

\* verify_file, up to its first tier:
\* "if args.signedmsg or args.signedhash or args.sig: get_pubkeys()"
GetPubkeys ==
    /\ At("verify_file")
    /\ IF args.signedmsg # <<>> \/ args.signedhash # <<>> \/ args.sig # <<>>
       THEN \E fails \in [Urls(args.pubkey) -> 0..args.tries] :
               Return(get_pubkeys(Machine, args, fails), "verify_signatures")
       ELSE Return(Machine, "verify_signatures")
    /\ UNCHANGED << args, local_target, verified, executed, tmp_dir, call >>

VerifySignatures ==
    /\ At("verify_signatures")
    /\ \E fails \in [Urls(args.sig) -> 0..args.tries] :
          Return(verify_signatures(Machine, args, local_target, fails), "verify_signed_hashes")
    /\ UNCHANGED << args, local_target, verified, executed, tmp_dir, call >>

VerifySignedHashes ==
    /\ At("verify_signed_hashes")
    /\ \E fails \in [HashUrls(args.signedhash) -> 0..args.tries] :
          Return(verify_signed_hashes(Machine, args, local_target, fails),
                 "verify_explicit_hashes")
    /\ UNCHANGED << args, local_target, verified, executed, tmp_dir, call >>

VerifyExplicitHashes ==
    /\ At("verify_explicit_hashes")
    /\ \E fails \in [HashUrls(args.hash) -> 0..args.tries] :
          Return(verify_explicit_hashes(Machine, args, local_target, fails), "verify_size")
    /\ UNCHANGED << args, local_target, verified, executed, tmp_dir, call >>

VerifySize ==
    /\ At("verify_size")
    /\ Return(verify_size(Machine, args, local_target), "verified")
    /\ UNCHANGED << args, local_target, verified, executed, tmp_dir, call >>

\* the end of verify_file: "print(f'Verified {os.path.basename(local_target)}')"
ReportVerified ==
    /\ At("verified")
    /\ verified' = TRUE
    /\ Return(Machine, "run")
    /\ UNCHANGED << args, local_target, executed, tmp_dir, call >>

\* "if args.run: safeget_run(*[args.target], interactive=True)": a url is no
\* program (FileNotFoundError, which safeget_run turns into fail); a local
\* target runs, and ends with status 0 or not.
RunTarget ==
    /\ At("run")
    /\ IF ~args.run
       THEN /\ Return(Machine, "after")
            /\ UNCHANGED executed
       ELSE IF is_url(args.target)
       THEN /\ Return(Fail(Machine, << <<"File not found">>, args.target >>), "after")
            /\ UNCHANGED executed
       ELSE /\ executed' = executed \cup {"run"}
            /\ \E rc_ok \in BOOLEAN :
                  Return(IF rc_ok THEN Machine ELSE Raise(Machine, "CalledProcessError"),
                         "after")
    /\ UNCHANGED << args, local_target, verified, tmp_dir, call >>

\* "if args.after: run_command_after(args.after)": args.after is the list
\* argparse makes of nargs='*', and run_command_after calls command.find on it
RunCommandAfter ==
    /\ At("after")
    /\ Return(IF args.after = <<>> THEN Machine ELSE Raise(Machine, "AttributeError"),
              "delete_temp_dir")
    /\ UNCHANGED << args, local_target, verified, executed, tmp_dir, call >>

\* "if not testing: delete_temp_dir()"
DeleteTempDir ==
    /\ At("delete_temp_dir")
    /\ tmp_dir' = FALSE
    /\ Return(Machine, "more")
    /\ UNCHANGED << args, local_target, verified, executed, call >>

\* more(), and main returns
More ==
    /\ At("more")
    /\ status' = "exit0"
    /\ UNCHANGED << args, pc, exc, msg, local_target, target_host, localpath_hash_cache,
                    hash_reads, net, warned, keyring, gpg_log, found_log, verified,
                    executed, tmp_dir, call >>

\* start_safeget's "except SafegetException", "except KeyboardInterrupt", and
\* any other exception, which leaves start_safeget
Except ==
    /\ status = "raised"
    /\ status' = IF exc = "SafegetException" THEN (IF args.debug THEN "traceback" ELSE "exit1")
                 ELSE IF exc = "KeyboardInterrupt"
                 THEN (IF args.debug THEN "traceback" ELSE "exit2")
                 ELSE "traceback"
    /\ UNCHANGED << args, pc, exc, msg, local_target, target_host, localpath_hash_cache,
                    hash_reads, net, warned, keyring, gpg_log, found_log, verified,
                    executed, tmp_dir, call >>

\* Ctrl-C while a call of start_safeget runs: KeyboardInterrupt is raised in it
Interrupt ==
    /\ status = "running"
    /\ status' = "raised"
    /\ exc' = "KeyboardInterrupt"
    /\ msg' = << <<"stopped by user">> >>
    /\ UNCHANGED << args, pc, local_target, target_host, localpath_hash_cache, hash_reads,
                    net, warned, keyring, gpg_log, found_log, verified, executed, tmp_dir, call >>

Next ==
    \/ VerifyArgs
    \/ InstallDependencies
    \/ VerifySafegetItself
    \/ Download
    \/ GetPubkeys
    \/ VerifySignatures
    \/ VerifySignedHashes
    \/ VerifyExplicitHashes
    \/ VerifySize
    \/ ReportVerified
    \/ RunTarget
    \/ RunCommandAfter
    \/ DeleteTempDir
    \/ More
    \/ Except

Spec == Init /\ [][Next]_vars

\* the runs in which the user may press Ctrl-C at any point
InterruptNext ==
    \/ VerifyArgs
    \/ InstallDependencies
    \/ VerifySafegetItself
    \/ Download
    \/ GetPubkeys
    \/ VerifySignatures
    \/ VerifySignedHashes
    \/ VerifyExplicitHashes
    \/ VerifySize
    \/ ReportVerified
    \/ RunTarget
    \/ RunCommandAfter
    \/ DeleteTempDir
    \/ More
    \/ Interrupt
    \/ Except

InterruptSpec == Init /\ [][InterruptNext]_vars

(* ------------------------ what the properties read -------------------- *)

\* the calls of start_safeget and verify_file, in the order they are made
Calls ==
    << "verify_args", "install_dependencies", "verify_safeget_itself", "download",
       "verify_file", "verify_signatures", "verify_signed_hashes", "verify_explicit_hashes",
       "verify_size", "verified", "run", "after", "delete_temp_dir", "more" >>

Position(place) == CHOOSE i \in 1..Len(Calls) : Calls[i] = place

\* the call at place has returned
Returned(place) == Position(pc) > Position(place)

\* the call at place raised (the run was not interrupted)
RaisedAt(place) == pc = place /\ status # "running" /\ exc # "KeyboardInterrupt"

\* the exception in flight is fail()'s, with this first part of the message
FailedWith(first) == exc = "SafegetException" /\ msg # <<>> /\ msg[1] = first

\* a download gave up after args.tries attempts
FetchFailed == FailedWith(<<"Unable to safely get">>)

\* The tiers as the specification defines them, read off the files of the
\* run and off what the run has done.
Digest(algo) == FileDigest(algo, TargetPath)

EntryAlgo(entry) == Lower(PartitionHead(entry))

EntryRest(entry) == PartitionTail(entry)

\* the entry has the form algorithm:url-or-path
IsReference(entry) == is_url(EntryRest(entry)) \/ PathExists(EntryRest(entry))

\* the digest of the target occurs in the content the entry refers to
ReferenceHolds(entry) ==
    /\ FileAt(EntryRest(entry)).decodable
    /\ Contains(FileAt(EntryRest(entry)).text, Digest(EntryAlgo(entry)))

\* the literal of the entry, normalised, is the digest of the target
LiteralHolds(entry) == RemoveSpaces(Lower(EntryRest(entry))) = Digest(EntryAlgo(entry))

EntryMatches(entry) ==
    IF IsReference(entry) THEN ReferenceHolds(entry) ELSE LiteralHolds(entry)

SizeMatches ==
    \/ args.size = <<>>
    \/ IsInt(RemoveCommas(args.size)) /\ IntOf(RemoveCommas(args.size)) = TargetBytes

AllEntriesMatch == \A i \in 1..Len(args.hash) : EntryMatches(args.hash[i])

MandatoryMatch == SizeMatches /\ AllEntriesMatch

\* gpg accepted a detached signature over the target
SigTierMatched == \E c \in gpg_log : c.op = "verify_detached" /\ c.ok

\* the digest was found in a signed message (the pages of --hash are saved
\* whole, as file 0 of their url)
SignedHashTierMatched == \E f \in found_log : f.file.index > 0

ExplicitTierMatched == args.hash # <<>> /\ AllEntriesMatch

SufficiencyMatched == SigTierMatched \/ SignedHashTierMatched \/ ExplicitTierMatched

(* ---------------------------------- C1 -------------------------------- *)

\* C1: the run reports the target as verified only if every declared
\* mandatory tier (size, explicit hashes) matches and at least one
\* sufficiency tier (detached signature, signed hash list, explicit hash) has
\* matched.  This is the "only if" half of the claim; the run whose one
\* sufficiency tier is detached signatures, none of which verifies, is its
\* particular case.
C1_VerifiedOnlyIfTiersMatch == verified => MandatoryMatch /\ SufficiencyMatched

(* ---------------------------------- C2 -------------------------------- *)

\* both signature sources gave gpg a candidate
TwoSigCandidates ==
    /\ Len(args.sig) = 2
    /\ \A i \in 1..2 : \E c \in gpg_log : c.op = "verify_detached" /\ c.file.origin = args.sig[i]

SigOnly == args.sig # <<>> /\ args.signedhash = <<>> /\ args.hash = <<>>

\* C2: with two signature sources, each yielding a candidate, the outcome of
\* the detached-signature tier is success when a candidate passes gpg and
\* failure when neither does, and the result of the run shows it: where the
\* signatures are the only sufficiency tier and the size holds, verify_file
\* ends with 'Verified' exactly when a candidate passed.
C2_SigTierOutcomeInResult ==
    (/\ TwoSigCandidates /\ SigOnly /\ SizeMatches /\ exc # "KeyboardInterrupt"
     /\ (Returned("verified") \/ status # "running"))
        => (verified <=> SigTierMatched)

(* ---------------------------------- C3 -------------------------------- *)

\* the signed-hash tier ended without a match
SignedHashTierFailed ==
    RaisedAt("verify_signed_hashes") /\ FailedWith(<<"no matching signed hash found in">>)

\* no entry of --hash names a local file
NoPathEntries == \A i \in 1..Len(args.hash) : is_url(EntryRest(args.hash[i])) \/ ~IsReference(args.hash[i])

C4_ExplicitHashesAnd ==
    /\ Returned("verify_explicit_hashes") => AllEntriesMatch
    /\ verified => AllEntriesMatch

\* the run failed in verify_explicit_hashes on its second entry, after a
\* first entry that matches
C4_Witness ==
    /\ RaisedAt("verify_explicit_hashes") /\ ~FetchFailed
    /\ Len(args.hash) = 2
    /\ EntryMatches(args.hash[1]) /\ ~IsReference(args.hash[1])
    /\ ~EntryMatches(args.hash[2])

(* ---------------------------------- C5 -------------------------------- *)

\* verify_explicit_hashes ended the run, and not for a page it could not get
HashMismatchAbort == RaisedAt("verify_explicit_hashes") /\ ~FetchFailed

\* the message in flight has the words in it
Names(words) == \E i \in 1..Len(msg) : Contains(msg[i], words)

\* the message names the entry's algorithm and the digest of the target
\* computed with it
NamesEntry(entry) == Names(EntryAlgo(entry)) /\ Names(Digest(EntryAlgo(entry)))

\* C5: when an entry of --hash (a literal or a url, first or later) does not
\* match, the run ends with fail()'s SafegetException, not with another
\* exception, and its message names the algorithm of an entry that does not
\* match and the digest computed with that algorithm.  (The claim asks for
\* the expected digest in the message as well; this is what is left of it
\* without.)
C5_MismatchIsReported ==
    (HashMismatchAbort /\ NoPathEntries) =>
        /\ exc = "SafegetException"
        /\ \E i \in 1..Len(args.hash) : ~EntryMatches(args.hash[i]) /\ NamesEntry(args.hash[i])

(* ---------------------------------- C6 -------------------------------- *)

\* C6: a --hash entry of the form algorithm:url-or-path matches exactly when
\* the digest of the target occurs in the content of the url or the file: a
\* run with that one entry gets through verify_explicit_hashes exactly then
\* (a page that cannot be got aside).
C6_ReferenceIsSearched ==
    \A entry \in HashEntries :
        ( /\ args.hash = <<entry>> /\ IsReference(entry)
          /\ Returned("verify_explicit_hashes") \/ RaisedAt("verify_explicit_hashes")
          /\ ~FetchFailed )
            => (Returned("verify_explicit_hashes") <=> ReferenceHolds(entry))

(* ---------------------------------- C7 -------------------------------- *)

\* C7: the digest is found only in signed messages gpg has verified: every
\* file of the signed-hash tier that search_for_hash found the digest in is
\* a file gpg --verify accepted, so neither a rejected nor an undersized
\* signed message contributes to a match.
C7_SearchedOnlyIfVerified ==
    \A f \in found_log :
        f.file.index > 0 =>
            \E c \in gpg_log : c.op = "verify_message" /\ c.file = f.file /\ c.ok

\* a run in which gpg rejected one signed message and the digest was found
\* in another
C7_Witness ==
    /\ \E c \in gpg_log : c.op = "verify_message" /\ ~c.ok
    /\ \E f \in found_log : f.file.index > 0

(* ---------------------------------- C8 -------------------------------- *)

\* the source a --signedhash argument names holds a signed-message block
HasSignedMessage(arg) ==
    \E i \in 1..Len(FileAt(EntryRest(arg)).blocks) : FileAt(EntryRest(arg)).blocks[i].kind = "msg"

\* the source holds a signed message gpg verifies whose text contains the
\* digest of the target
SourceProves(arg) ==
    \E i \in 1..Len(FileAt(EntryRest(arg)).blocks) :
        LET b == FileAt(EntryRest(arg)).blocks[i]
        IN  /\ b.kind = "msg" /\ b.size > MIN_GPG_SIZE /\ b.valid
            /\ Contains(b.text, Digest(EntryAlgo(arg)))

SomeSourceProves == \E i \in 1..Len(args.signedhash) : SourceProves(args.signedhash[i])

SignedHashTierEnded ==
    /\ args.signedhash # <<>>
    /\ Returned("verify_signed_hashes") \/ RaisedAt("verify_signed_hashes")
    /\ ~FetchFailed

C9_SignedMessagesVerified ==
    (args.signedmsg # <<>> /\ Returned("verified")) =>
        \A i \in 1..Len(args.signedmsg) :
            \A n \in 1..Len(FileAt(args.signedmsg[i]).blocks) :
                FileAt(args.signedmsg[i]).blocks[n].kind = "msg" =>
                    \E c \in gpg_log : /\ c.op = "verify_message"
                                       /\ c.file = TempFile(args.signedmsg[i], n)

(* ---------------------------------- C10 ------------------------------- *)

EmptyRequest == args.sig = <<>> /\ args.signedhash = <<>> /\ args.hash = <<>>

\* C10: a request with no signature source, no signed-hash source and no
\* explicit hash, with or without a size, never gets past verify_args, ends
\* there with fail()'s configuration message, and requests no url: no
\* download, no download of a dependency, no self-attestation.
C10_EmptyRequestRejected ==
    EmptyRequest =>
        /\ net = {}
        /\ pc = "verify_args"
        /\ RaisedAt("verify_args") =>
               FailedWith(<<"File signature, signed hash, or explicit hash required">>)

\* a request for a url that declares a size only has ended with exit status 1
C10_Witness ==
    /\ EmptyRequest /\ args.size # <<>> /\ is_url(args.target)
    /\ status = "exit1" /\ net = {}

(* ---------------------------------- C11 ------------------------------- *)

\* C11: the target (--run) or the command of --after is executed only after
\* verify_file has returned, and never in a run in which verification has
\* failed: whenever something has been executed, 'Verified' was printed, every
\* declared mandatory tier holds and a sufficiency tier has matched.
C11_ExecutedOnlyIfVerified ==
    executed # {} => verified /\ MandatoryMatch /\ SufficiencyMatched

(* ------------------ verify_source and download by themselves ---------- *)

\* The sources verify_source and download are called for, in any order: the
\* target, and urls and files beside it, on the target's host (with and
\* without a port), on other hosts, and over protocols that are not safe.
InsecureTargetUrl == <<"http", ":", "/", "/", "h1", "/", "app.bin">>
SameHostUrl == <<"https", ":", "/", "/", "h1", "/", "sig">>
SameHostPortUrl == <<"https", ":", "/", "/", "h1", ":", "8443", "/", "sums">>
HttpUrl == <<"http", ":", "/", "/", "h2", "/", "sig">>
FtpUrl == <<"ftp", ":", "/", "/", "h1", "/", "sums">>

FetchTargets == { TargetPath, TargetUrl, InsecureTargetUrl }

FetchSources ==
    FetchTargets \cup { SigGood, SigUrl, SameHostUrl, SameHostPortUrl, HttpUrl, FtpUrl }

\* args of a run that is about target, with --onehost or not and --tries
FetchRequest(target, onehost, tries) ==
    [Request(<<>>, <<>>, <<>>, {}) EXCEPT !.target = target, !.onehost = onehost,
                                          !.tries = tries]

FetchInit ==
    /\ \E target \in FetchTargets, onehost \in BOOLEAN, tries \in 1..MaxTries :
          args = FetchRequest(target, onehost, tries)
    /\ pc = "sources"
    /\ status = "running"
    /\ exc = "none"
    /\ msg = <<>>
    /\ local_target = <<>>
    /\ target_host = None
    /\ localpath_hash_cache = [k \in {} |-> <<>>]
    /\ hash_reads = 0
    /\ net = {}
    /\ warned = {}
    /\ keyring = {}
    /\ gpg_log = {}
    /\ found_log = {}
    /\ verified = FALSE
    /\ executed = {}
    /\ tmp_dir = TRUE
    /\ NoCalls

\* a call of verify_source
FetchVerifySource ==
    /\ At("sources")
    /\ \E source \in FetchSources : Return(verify_source(Machine, args, source), "sources")
    /\ UNCHANGED << args, local_target, verified, executed, tmp_dir, call >>

\* a call of download
FetchDownload ==
    /\ At("sources")
    /\ \E url \in { u \in FetchSources : is_url(u) }, fails \in 0..args.tries :
          Return(download(Machine, args, url, fails), "sources")
    /\ UNCHANGED << args, local_target, verified, executed, tmp_dir, call >>

FetchNext ==
    \/ FetchVerifySource
    \/ FetchDownload

FetchSpec == FetchInit /\ [][FetchNext]_vars

(* ---------------------------------- C12 ------------------------------- *)

InsecureProtocol == FailedWith(<<"url does not use a safe protocol">>)

\* C12: download_url is reached only for urls verify_source has accepted: no
\* url outside https, sftp and file is ever requested, and the call that
\* fails for an unsafe protocol has made no attempt at its url.
C12_VerifiedBeforeFetched ==
    /\ \A r \in net : UrlScheme(r.url) \in SAFE_PROTOCOLS
    /\ InsecureProtocol =>
           /\ UrlScheme(msg[2]) \notin SAFE_PROTOCOLS
           /\ \A r \in net : r.url # msg[2]

\* a download of an http url failed after another url had been fetched
C12_Witness ==
    /\ InsecureProtocol /\ msg[2] = HttpUrl
    /\ \E r \in net : r.url = SigUrl /\ r.ok

(* ---------------------------------- C13 ------------------------------- *)

\* C13: download with --tries N >= 1 attempts download_url at least once and
\* at most N times, makes no attempt after one that succeeded, and, when
\* every attempt failed, has made exactly N attempts and fails.
C13_RetryBound ==
    \A r \in net :
        /\ r.attempts = Len(r.answers)
        /\ 1 <= r.attempts /\ r.attempts <= args.tries
        /\ \A i \in 1..(Len(r.answers) - 1) : ~r.answers[i]
        /\ r.ok = r.answers[Len(r.answers)]
        /\ ~r.ok => r.attempts = args.tries /\ status # "running" /\ FetchFailed

\* in one run a download succeeded at its last attempt and another gave up
C13_Witness ==
    /\ args.tries = MaxTries
    /\ \E r \in net : r.ok /\ r.attempts = MaxTries
    /\ \E r \in net : ~r.ok /\ r.attempts = MaxTries

(* ---------------------------------- C14 ------------------------------- *)

\* the download that gave up
GaveUp(r) == ~r.ok /\ msg[2] = r.url

\* the message has the url, the last reason and the suggestion
NamesFailure(r) ==
    /\ GaveUp(r)
    /\ Names(r.url)
    /\ Names(Tail(NetReason))
    /\ Names(<<"Suggestions: Check connections or try again later.">>)

Attestation(r) == r.url = ApiUrl

TargetRequested == \E r \in net : r.url = args.target

\* C15: with the self-check enabled, the target is requested only after the
\* attestation endpoint has answered, and when the endpoint is not reached,
\* its page is not parsed, or its response gives a size or a digest that is
\* not the program's own, the run ends in verify_safeget_itself and the target
\* is never requested.
C15_AttestedBeforeDownload ==
    /\ (args.noselfcheck = "False" /\ TargetRequested) => \E r \in net : Attestation(r)
    /\ \A r \in net :
           (Attestation(r) /\ (r.reply # "parsed" \/ r.differs))
               => RaisedAt("verify_safeget_itself") /\ ~TargetRequested

\* the response gave a size or a digest that is not the program's, for a
\* target that is a url, and the run has ended with the message to get the
\* installer again
C15_Witness ==
    /\ is_url(args.target) /\ status = "exit1"
    /\ \E r \in net : Attestation(r) /\ r.reply = "parsed" /\ r.differs
    /\ \E i \in 1..Len(msg) :
          Contains(msg[i], <<"IMPORTANT: You should download the safeget installer again.">>)

(* ---------------------------------- C16 ------------------------------- *)

\* the process has exited through main's own paths: success, a reported
\* failure, or an interrupt
Exited == status \in {"exit0", "exit1", "exit2"}

\* C16: however a run ends (success, a verification or acquisition failure,
\* an interrupt at any point), the temporary directory has been deleted
\* when the process exits.
C16_TempDirDeletedAtExit == Exited => ~tmp_dir

(* ---------------------------------- C17 ------------------------------- *)

\* a call of verify_file, or the download before it, ended the run with an
\* exception of its own
VerificationFailure ==
    /\ status \notin {"running", "raised"}
    /\ exc \notin {"none", "KeyboardInterrupt"}
    /\ pc \in {"download", "get_pubkeys", "verify_signatures", "verify_signed_hashes",
               "verify_explicit_hashes", "verify_size"}

\* C17: without the debug flag, a run that ends with status 0 has reported
\* the file verified, every failure of the download and of verify_file ends
\* with exit status 1 and a message and never as an uncaught exception, and
\* an interrupt ends with exit status 2.
C17_ExitStatusMapping ==
    ~args.debug =>
        /\ status = "exit0" => verified /\ exc = "none"
        /\ VerificationFailure => status = "exit1" /\ exc = "SafegetException" /\ msg # <<>>
        /\ status = "exit2" <=> (exc = "KeyboardInterrupt" /\ status \notin {"running", "raised"})

(* ---------------------------------- C18 ------------------------------- *)

\* a size was declared and it is not the byte length of the target
SizeDiffers == args.size # <<>> /\ ~SizeMatches

\* verify_size ended the run with an exception of its own
SizeAbort == RaisedAt("verify_size")

\* C18: a run with a declared size that is not the length of the target
\* never gets past verify_size and is never reported verified, whatever the
\* tiers before it found; verify_size ends a run only for such a size, and
\* a declared size that equals the length once its commas are removed is
\* let through.
C18_SizeIsMandatory ==
    /\ SizeDiffers => ~Returned("verify_size") /\ ~verified
    /\ SizeAbort => SizeDiffers
    /\ (SizeAbort /\ IsInt(RemoveCommas(args.size))) => FailedWith(<<"file size is not">>)

\* a signature over the target was accepted and every hash entry matched,
\* and the run ended in verify_size for a size one byte off
C18_Witness ==
    /\ SigTierMatched /\ args.hash # <<>> /\ AllEntriesMatch
    /\ args.size = SizeBad /\ SizeAbort /\ status = "exit1"

(* ---------------------------------- C19 ------------------------------- *)

\* a url that is not the target, on the host target_host holds
OnTargetHost(source) ==
    is_url(source) /\ source # args.target /\ parse_host(source) = target_host

\* verify_source, called now for the source, returns
Accepts(source) == verify_source(Machine, args, source).exc = "none"

C20_TargetHostWriteOnce == [][target_host # None => target_host' = target_host]_vars

\* target_host was set from the target's url, and afterwards a url on
\* another host was verified and requested and a url on the same host was
\* warned about
C20_Witness ==
    /\ target_host = <<"h1">> /\ args.target = TargetUrl
    /\ \E r \in net : r.url = SigUrl
    /\ SameHostUrl \in warned

(* --------------------- clean_gpg_data and its text -------------------- *)

Backslash == "\\"

\* the newline character
Newline == "LF"

\* a run of MIN_GPG_SIZE ordinary bytes, which no replacement touches
Armor == "(armor)"

\* the characters the replacements of clean_gpg_data look for
TextChars == { Backslash, "n", "r", "<", "p", ">", "/", "b", "^", "s", "*" }

\* the texts of a file: with the armor or without, then up to MaxText characters
Texts ==
    { armor \o t : armor \in { <<>>, <<Armor>> },
                   t \in UNION { Lists(TextChars, n) : n \in 0..MaxText } }

\* os.path.getsize(path)
RECURSIVE Bytes(_)
Bytes(t) ==
    IF t = <<>> THEN 0
    ELSE (IF Head(t) = Armor THEN MIN_GPG_SIZE ELSE 1) + Bytes(Tail(t))

\* str.replace(old, new): every occurrence, from the left, none overlapping
RECURSIVE Replace(_, _, _)
Replace(t, old, new) ==
    IF Len(t) < Len(old) THEN t
    ELSE IF StartsWith(t, old)
    THEN new \o Replace(SubSeq(t, Len(old) + 1, Len(t)), old, new)
    ELSE <<Head(t)>> \o Replace(Tail(t), old, new)

\* "text = text.replace('^/s*', '')" ... "text = text.replace('<br/>', '\n')"
Replacements(t) ==
    Replace(
     Replace(
      Replace(
       Replace(
        Replace(
         Replace(
          Replace(t, <<"^", "/", "s", "*">>, <<>>),
          <<Backslash, "n">>, <<Newline>>),
         <<Backslash, "r">>, <<>>),
        <<"<", "p", ">">>, <<Newline>>),
       <<"<", "/", "p", ">">>, <<Newline>>),
      <<"<", "b", "r", ">">>, <<Newline>>),
     <<"<", "b", "r", "/", ">">>, <<Newline>>)

\* "assert '\\n' not in text", then the file is written and ok returned
Asserted(t, cleaned) ==
    IF Contains(cleaned, <<Backslash, "n">>)
    THEN [exc |-> "AssertionError", text |-> t, ok |-> None]
    ELSE [exc |-> "none", text |-> cleaned, ok |-> TRUE]

\* clean_gpg_data on a file that holds t: [exc, text, ok], text what the
\* file holds afterwards
CleanGpgText(t) ==
    IF Bytes(t) > MIN_GPG_SIZE THEN Asserted(t, Replacements(t))
    ELSE [exc |-> "none", text |-> t, ok |-> FALSE]

\* the state of a run in which no call of start_safeget has been made
Idle ==
    /\ args = Request(<<>>, <<>>, <<>>, {})
    /\ status = "running"
    /\ exc = "none"
    /\ msg = <<>>
    /\ local_target = <<>>
    /\ target_host = None
    /\ localpath_hash_cache = [k \in {} |-> <<>>]
    /\ hash_reads = 0
    /\ net = {}
    /\ warned = {}
    /\ keyring = {}
    /\ gpg_log = {}
    /\ found_log = {}
    /\ verified = FALSE
    /\ executed = {}
    /\ tmp_dir = TRUE

run_vars == << args, local_target, target_host, net, warned, keyring, gpg_log, found_log,
               verified, executed, tmp_dir >>

CleanInit ==
    /\ Idle
    /\ pc = "clean_gpg_data"
    /\ \E t \in Texts : call = Locals(t, None)

\* a call of clean_gpg_data
CleanGpgData ==
    /\ At("clean_gpg_data")
    /\ call' = [call EXCEPT !.text = CleanGpgText(text).text, !.ok = CleanGpgText(text).ok]
    /\ exc' = CleanGpgText(text).exc
    /\ status' = IF CleanGpgText(text).exc = "none" THEN "running" ELSE "raised"
    /\ pc' = IF CleanGpgText(text).exc = "none" THEN "cleaned" ELSE pc
    /\ UNCHANGED << run_vars, msg, localpath_hash_cache, hash_reads >>

CleanNext ==
    \/ CleanGpgData

CleanSpec == CleanInit /\ [][CleanNext]_vars

(* ---------------------------------- C21 ------------------------------- *)

EscapedNewline == <<Backslash, "n">>

\* C21: the assertion of clean_gpg_data never fails, and the text of a file
\* above the minimum size holds no backslash followed by 'n' once
\* clean_gpg_data has returned.
C21_NoEscapedNewlineLeft ==
    /\ exc # "AssertionError"
    /\ (pc = "cleaned" /\ ok = TRUE) => ~Contains(text, EscapedNewline)

(* -------------------------- hash_data, call by call ------------------- *)

\* a path with a ':' in it, as the key of the cache has
DrivePath == <<"d", ":", "app.bin">>

HashPaths == { TargetPath, DrivePath, KeyFile }

HashInit ==
    /\ Idle
    /\ pc = "hash_data"
    /\ NoCalls

\* "actual_hash = hash_data(algo, localpath)", h what the call gave
HashDataReturned(algo, localpath, h) ==
    /\ localpath_hash_cache' = h.m.cache
    /\ hash_reads' = h.m.reads
    /\ call' = [call EXCEPT !.hash_calls =
                        Append(@, [algo |-> algo, localpath |-> localpath,
                                   actual_hash |-> h.value, reads |-> h.m.reads])]

\* a call of hash_data
HashData ==
    /\ At("hash_data")
    /\ Len(hash_calls) < MaxCalls
    /\ \E algo \in hash_algorithms, localpath \in HashPaths :
          HashDataReturned(algo, localpath, hash_data(Machine, algo, localpath))
    /\ UNCHANGED << run_vars, pc, status, exc, msg >>

HashNext ==
    \/ HashData

HashSpec == HashInit /\ [][HashNext]_vars

(* ---------------------------------- C22 ------------------------------- *)

\* calls i and j were for the same algorithm and the same path
SameFile(i, j) ==
    /\ hash_calls[i].algo = hash_calls[j].algo
    /\ hash_calls[i].localpath = hash_calls[j].localpath

\* how often a file had been read when call j was made
ReadsBefore(j) == IF j = 1 THEN 0 ELSE hash_calls[j - 1].reads

\* call j is not the first for its algorithm and path
Repeated(j) == \E i \in 1..(j - 1) : SameFile(i, j)

\* every call returns the digest of its own file for its own algorithm, a
\* repeated call returns what the first returned and reads nothing, and a
\* first call reads the file once
Memoized ==
    \A j \in 1..Len(hash_calls) :
        /\ hash_calls[j].actual_hash = FileDigest(hash_calls[j].algo, hash_calls[j].localpath)
        /\ \A i \in 1..(j - 1) :
              SameFile(i, j) => hash_calls[j].actual_hash = hash_calls[i].actual_hash
        /\ hash_calls[j].reads = ReadsBefore(j) + (IF Repeated(j) THEN 0 ELSE 1)

\* an entry of the cache stays, with its value
AppendOnly ==
    \A k \in DOMAIN localpath_hash_cache :
        /\ k \in DOMAIN localpath_hash_cache'
        /\ localpath_hash_cache'[k] = localpath_hash_cache[k]

\* C22: within a run a repeated hash_data call for the same algorithm and
\* path returns the value of the first call without reading the file again,
\* calls for another algorithm or another path get the digest of their own,
\* and no call changes or removes an entry of the cache.
C22_HashMemoized == []Memoized /\ [][AppendOnly]_vars

\* a file was hashed, then a file at another path with the same algorithm,
\* then the first again: two reads for three calls
C22_Witness ==
    /\ Len(hash_calls) = 3
    /\ SameFile(1, 3)
    /\ hash_calls[1].algo = hash_calls[2].algo
    /\ hash_calls[1].localpath = TargetPath /\ hash_calls[2].localpath = DrivePath
    /\ hash_reads = 2

(* ------------------- check_safeget_itself, on its own ----------------- *)

CheckInit ==
    /\ Idle
    /\ pc = "check_safeget_itself"
    /\ \E r \in Responses : call = Locals(<<>>, r)

\* check_safeget_itself returned c, or raised
CheckReturned(c) ==
    /\ exc' = c.exc
    /\ call' = [call EXCEPT !.ok = IF c.exc = "none" THEN c.ok ELSE @]
    /\ msg' = IF c.exc = "none" /\ c.error_message # None THEN << c.error_message >> ELSE msg
    /\ pc' = IF c.exc = "none" THEN "checked" ELSE pc
    /\ status' = IF c.exc = "none" THEN "running" ELSE "raised"

\* a call of check_safeget_itself, from "result = json.loads(page)" on
CheckSafegetItself ==
    /\ At("check_safeget_itself")
    /\ CheckReturned(check_safeget_itself(result))
    /\ UNCHANGED << run_vars, localpath_hash_cache, hash_reads >>

CheckNext ==
    \/ CheckSafegetItself

CheckSpec == CheckInit /\ [][CheckNext]_vars

(* ---------------------------------- C23 ------------------------------- *)

\* the response has a 'quick-query' result whose ok flag is true, and the
\* size, the SHA512 and the SHA256 it reports are the local file's
Attests ==
    /\ result.qq /\ result.ok /\ result.message
    /\ result.bytes /\ result.sha512 /\ result.sha256

\* C23: check_safeget_itself returns ok = True only for a response with a
\* 'quick-query' result whose ok flag is true and whose size, SHA512 and
\* SHA256 are those of the local file, and ok = False for every other
\* response it returns for.
C23_OkOnlyIfAttested == pc = "checked" => (ok = TRUE <=> Attests)

====
